---- MODULE Spec2Model ----
(***************************************************************************)
(* marko2html (bin/marko2html.js): a command line script that renders one  *)
(* Marko template with a data file to stdout, to a file (--outfile) or     *)
(* into a directory (--outdir).                                            *)
(*                                                                         *)
(* A path is a sequence of one-character strings.  The path functions of   *)
(* Node (path.join, path.parse, path.resolve) and the file lookup of       *)
(* require() are computed character by character, as Node computes them.   *)
(*                                                                         *)
(* The model follows the script that takes --outfile and --outdir (lines   *)
(* 26-246 of the source).  fs.createWriteStream returns its stream at once *)
(* and opens the file asynchronously, so the creation of the output file   *)
(* is a step of its own (OpenComplete) that runs while the process lives.  *)
(***************************************************************************)
EXTENDS Integers, Sequences, FiniteSets, TLC

\* ---------------------------------------------------------------- bounds
\* longest chain of directories in front of a generated template file name
MaxDepth == 2
\* most template files a template directory holds
MaxTemplates == 2

\* ------------------------------------------------------------ characters
Slash == "/"
Dot == "."
ExtJson == <<".", "j", "s", "o", "n">>
ExtHtml == <<".", "h", "t", "m", "l">>
ExtJs == <<".", "j", "s">>
ExtNode == <<".", "n", "o", "d", "e">>
DotDot == <<".", ".">>
\* the working directory of the process, "/w"
Cwd == <<"/", "w">>

\* ------------------------------------------------- Node's path functions
RECURSIVE SplitPath(_, _)
\* String.prototype.split('/'): the segments of s; cur is the segment being read
SplitPath(s, cur) ==
  IF s = <<>> THEN <<cur>>
  ELSE IF Head(s) = Slash THEN <<cur>> \o SplitPath(Tail(s), <<>>)
  ELSE SplitPath(Tail(s), Append(cur, Head(s)))

RECURSIVE NormalizeArray(_, _, _)
\* path.normalize's walk over the segments: drops "" and ".", resolves ".."
NormalizeArray(parts, res, allowAboveRoot) ==
  IF parts = <<>> THEN res
  ELSE LET p == Head(parts) IN
    IF p = <<>> \/ p = <<Dot>>
      THEN NormalizeArray(Tail(parts), res, allowAboveRoot)
    ELSE IF p = DotDot
      THEN IF res # <<>> /\ res[Len(res)] # DotDot
             THEN NormalizeArray(Tail(parts), SubSeq(res, 1, Len(res) - 1), allowAboveRoot)
           ELSE IF allowAboveRoot
             THEN NormalizeArray(Tail(parts), Append(res, p), allowAboveRoot)
           ELSE NormalizeArray(Tail(parts), res, allowAboveRoot)
    ELSE NormalizeArray(Tail(parts), Append(res, p), allowAboveRoot)

RECURSIVE JoinSegments(_)
\* Array.prototype.join('/')
JoinSegments(segs) ==
  IF segs = <<>> THEN <<>>
  ELSE IF Len(segs) = 1 THEN segs[1]
  ELSE segs[1] \o <<Slash>> \o JoinSegments(Tail(segs))

IsAbsolute(p) == p # <<>> /\ p[1] = Slash

\* path.normalize (posix)
PathNormalize(p) ==
  IF p = <<>> THEN <<Dot>>
  ELSE
    LET abs == IsAbsolute(p)
        trailing == p[Len(p)] = Slash
        body == JoinSegments(NormalizeArray(SplitPath(p, <<>>), <<>>, ~abs))
        body2 == IF body = <<>> /\ ~abs THEN <<Dot>> ELSE body
        body3 == IF body2 # <<>> /\ trailing THEN body2 \o <<Slash>> ELSE body2
    IN IF abs THEN <<Slash>> \o body3 ELSE body3

\* path.join(a, b) (posix): the non-empty arguments joined by '/', normalized
PathJoin(a, b) ==
  IF a = <<>> /\ b = <<>> THEN <<Dot>>
  ELSE IF a = <<>> THEN PathNormalize(b)
  ELSE IF b = <<>> THEN PathNormalize(a)
  ELSE PathNormalize(a \o <<Slash>> \o b)

RECURSIVE StripTrailingSlashes(_)
StripTrailingSlashes(p) ==
  IF Len(p) > 1 /\ p[Len(p)] = Slash
    THEN StripTrailingSlashes(SubSeq(p, 1, Len(p) - 1))
    ELSE p

RECURSIVE LastIndexOf(_, _)
\* String.prototype.lastIndexOf, 1-based; 0 when c does not occur in s
LastIndexOf(s, c) ==
  IF s = <<>> THEN 0
  ELSE IF s[Len(s)] = c THEN Len(s)
  ELSE LastIndexOf(SubSeq(s, 1, Len(s) - 1), c)

\* path.parse(p).base: what follows the last '/', trailing slashes ignored
PathBase(p) ==
  LET q == StripTrailingSlashes(p)
      i == LastIndexOf(q, Slash)
  IN IF q = <<Slash>> THEN <<>> ELSE SubSeq(q, i + 1, Len(q))

\* path.parse(p).name: the base without its last extension; a leading dot
\* starts no extension
PathParseName(p) ==
  LET base == PathBase(p)
      i == LastIndexOf(base, Dot)
  IN IF i <= 1 \/ base = DotDot THEN base ELSE SubSeq(base, 1, i - 1)

\* path.resolve(p) (posix): absolute, normalized, no trailing slash
PathResolve(p) ==
  StripTrailingSlashes(
    PathNormalize(IF IsAbsolute(p) THEN p ELSE Cwd \o <<Slash>> \o p))

\* ---------------------------------------------------------------- inputs
TemplateExt == <<".", "m", "a", "r", "k", "o">>
DirNames == {<<"b">>, <<"s">>}
FileNames == {<<"x">> \o TemplateExt, <<"a", ".", "b">> \o TemplateExt, <<".", "h">>}

RECURSIVE DirChains(_)
\* "" and every chain "d1/.../dk/" of at most n directory names
DirChains(n) ==
  IF n = 0 THEN {<<>>}
  ELSE LET shorter == DirChains(n - 1)
       IN shorter \cup {d \o <<Slash>> \o c : d \in DirNames, c \in shorter}

\* the <template> arguments tried
TemplatePaths == {c \o f : c \in DirChains(MaxDepth), f \in FileNames}

\* the <dataJson> arguments tried: "data", "data/", "d.json", "./d.js"
DataPaths ==
  { <<"d", "a", "t", "a">>,
    <<"d", "a", "t", "a", "/">>,
    <<"d">> \o ExtJson,
    <<".", "/", "d">> \o ExtJs }

\* the value commander leaves in program.outfile / program.outdir: undefined
\* (option absent), true (option given without a value) or the string given
OptUndefined == [kind |-> "undefined", path |-> <<>>]
OptTrue == [kind |-> "true", path |-> <<>>]
OptStr(p) == [kind |-> "string", path |-> p]

\* JavaScript truthiness of an option value
Truthy(o) == o.kind = "true" \/ (o.kind = "string" /\ o.path # <<>>)

\* --outfile values tried: absent, flag only, "o.html", "./g/o.html"
OutfileValues ==
  { OptUndefined, OptTrue,
    OptStr(<<"o">> \o ExtHtml),
    OptStr(<<".", "/", "g", "/", "o">> \o ExtHtml) }

\* --outdir values tried: absent, flag only, "out", "out/"
OutdirValues ==
  { OptUndefined, OptTrue,
    OptStr(<<"o", "u", "t">>),
    OptStr(<<"o", "u", "t", "/">>) }

\* what fs.statSync can find at a path
StatKinds == {"missing", "file", "dir", "other"}

\* ----------------------------------------------------------------- state
VARIABLES
  pc,               \* position of the script
  argTemplatePath,  \* <template> argument
  argDataPath,      \* <dataJson> argument
  outputPath,       \* {outfile, outdir}
  outputPathInfo,   \* getPathInfo(outputPath.outdir), Null before the call
  templatePathInfo, \* getPathInfo(argTemplatePath), Null before the call
  dataPathInfo,     \* getPathInfo(argDataPath), Null before the call
  matched,          \* template files found under argTemplatePath when it is a directory
  templateFilePath, \* parameter of processTemplateFile
  dataFilePath,     \* result of buildDataFilename, <<>> before the call
  outputFilePath,   \* path given to fs.createWriteStream, <<>> when none
  outputStream,     \* "none", "stdout" or "file"
  openState,        \* the stream's asynchronous open: "none", "pending", "open", "failed"
  fileCreated,      \* the output file has been created/truncated on disk
  streamBuffer,     \* the rendering is buffered in the file stream
  stdoutGot,        \* stdout has received the rendering
  fileGot,          \* the output file has received the rendering
  template,         \* result of marko.load: "none" or "loaded"
  data,             \* result of require(dataPath): "none" or "loaded"
  dataFiles,        \* the data files require() found present on disk
  thrown,           \* the call that threw, "none" when none did
  renderAttempts,   \* calls of renderTemplate
  statusLines,      \* per-template status lines written to stderr
  stderr,           \* messages written by console.error, in order
  exitStatus        \* status the process ended with (meaningful when pc = "exited")

vars ==
  << pc, argTemplatePath, argDataPath, outputPath, outputPathInfo, templatePathInfo,
     dataPathInfo, matched, templateFilePath, dataFilePath, outputFilePath,
     outputStream, openState, fileCreated, streamBuffer, stdoutGot, fileGot,
     template, data, dataFiles, thrown, renderAttempts, statusLines, stderr,
     exitStatus >>

\* a PathInfo variable before getPathInfo has been called for it
Null == [null |-> TRUE]

\* getPathInfo: the PathInfo of a path at which statSync finds `kind`
\* ("missing": statSync throws, and the catch returns exists = false)
getPathInfo(pathToCheck, kind) ==
  [ path |-> pathToCheck,
    exists |-> kind # "missing",
    isFile |-> kind = "file",
    isDir |-> kind = "dir" ]

\* the low 8 bits of the code given to process.exit are the exit status
ExitStatus(code) == code % 256

\* console.error(msg); process.exit(code)
ErrorExit(msg, code) ==
  /\ stderr' = Append(stderr, msg)
  /\ exitStatus' = ExitStatus(code)
  /\ pc' = "exited"

\* buildDataFilename without its isFile branch
buildDataFilenameAlwaysJoins(templatePath, dataInfo) ==
  PathJoin(dataInfo.path, PathParseName(templatePath) \o ExtJson)

\* buildDataFilename
buildDataFilename(templatePath, dataInfo) ==
  IF dataInfo.isFile
    THEN dataInfo.path
    ELSE PathJoin(dataInfo.path, PathParseName(templatePath) \o ExtJson)

\* buildOutputStream taking --outfile for a directory, as it takes --outdir
buildOutputFilePathJoinsOutfile(templatePath, out) ==
  IF ~Truthy(out.outfile) /\ ~Truthy(out.outdir) THEN <<>>
  ELSE PathJoin(IF Truthy(out.outfile) THEN out.outfile.path ELSE out.outdir.path,
                PathParseName(templatePath) \o ExtHtml)

\* buildOutputStream, the path it opens; <<>> when it returns process.stdout
buildOutputFilePath(templatePath, out) ==
  IF ~Truthy(out.outfile) /\ ~Truthy(out.outdir) THEN <<>>
  ELSE IF Truthy(out.outfile) THEN out.outfile.path
  ELSE PathJoin(out.outdir.path, PathParseName(templatePath) \o ExtHtml)

\* require(X) for an absolute X: the first of X, X.js, X.json, X.node that is
\* a file; <<>> when none is
RequireResolve(x, present) ==
  IF x \in present THEN x
  ELSE IF (x \o ExtJs) \in present THEN x \o ExtJs
  ELSE IF (x \o ExtJson) \in present THEN x \o ExtJson
  ELSE IF (x \o ExtNode) \in present THEN x \o ExtNode
  ELSE <<>>

\* ------------------------------------------------------------ the script
inputVars == <<argTemplatePath, argDataPath, outputPath>>
infoVars == <<outputPathInfo, templatePathInfo, dataPathInfo, matched>>
pathVars == <<templateFilePath, dataFilePath, outputFilePath>>
sinkVars == <<outputStream, openState, fileCreated, streamBuffer, stdoutGot, fileGot>>
loadVars == <<template, data, dataFiles, thrown, renderAttempts>>
exitVars == <<stderr, exitStatus>>

\* after commander has parsed process.argv (lines 170-190)
Init ==
  /\ pc = "start"
  /\ argTemplatePath \in TemplatePaths
  /\ argDataPath \in DataPaths
  /\ outputPath \in [outfile : OutfileValues, outdir : OutdirValues]
  /\ outputPathInfo = Null
  /\ templatePathInfo = Null
  /\ dataPathInfo = Null
  /\ matched = 0
  /\ templateFilePath = <<>>
  /\ dataFilePath = <<>>
  /\ outputFilePath = <<>>
  /\ outputStream = "none"
  /\ openState = "none"
  /\ fileCreated = FALSE
  /\ streamBuffer = FALSE
  /\ stdoutGot = FALSE
  /\ fileGot = FALSE
  /\ template = "none"
  /\ data = "none"
  /\ dataFiles = {}
  /\ thrown = "none"
  /\ renderAttempts = 0
  /\ statusLines = 0
  /\ stderr = <<>>
  /\ exitStatus = 0

\* if (outputPath.outfile && outputPath.outdir) { ...; process.exit(-1) }
CheckOutputOptions ==
  /\ pc = "start"
  /\ IF Truthy(outputPath.outfile) /\ Truthy(outputPath.outdir)
       THEN ErrorExit("Can only have one of --outfile or --outdir specified", -1)
       ELSE pc' = "checkOutdir" /\ UNCHANGED exitVars
  /\ UNCHANGED <<inputVars, infoVars, pathVars, sinkVars, loadVars, statusLines>>

\* the --outdir check without its process.exit: the message is written and
\* the script goes on
CheckOutdirNoExit ==
  /\ pc = "checkOutdir"
  /\ IF Truthy(outputPath.outdir)
       THEN \E kind \in StatKinds :
              /\ outputPath.outdir.kind = "true" => kind = "missing"
              /\ outputPathInfo' = getPathInfo(outputPath.outdir.path, kind)
              /\ IF ~outputPathInfo'.exists \/ ~outputPathInfo'.isDir
                   THEN /\ stderr' = Append(stderr, "Output directory does not exist")
                        /\ UNCHANGED exitStatus
                   ELSE UNCHANGED exitVars
       ELSE UNCHANGED <<outputPathInfo, exitVars>>
  /\ pc' = "checkTemplate"
  /\ UNCHANGED <<inputVars, templatePathInfo, dataPathInfo, matched, pathVars,
                 sinkVars, loadVars, statusLines>>

\* if (outputPath.outdir) { the directory must already exist }
CheckOutdir ==
  /\ pc = "checkOutdir"
  /\ IF Truthy(outputPath.outdir)
       THEN \E kind \in StatKinds :
              \* statSync(true) throws: no path is found for a value that is no string
              /\ outputPath.outdir.kind = "true" => kind = "missing"
              /\ outputPathInfo' = getPathInfo(outputPath.outdir.path, kind)
              /\ IF ~outputPathInfo'.exists \/ ~outputPathInfo'.isDir
                   THEN ErrorExit("Output directory does not exist", -1)
                   ELSE pc' = "checkTemplate" /\ UNCHANGED exitVars
       ELSE pc' = "checkTemplate" /\ UNCHANGED <<outputPathInfo, exitVars>>
  /\ UNCHANGED <<inputVars, templatePathInfo, dataPathInfo, matched, pathVars,
                 sinkVars, loadVars, statusLines>>

\* Ensure that template path exists
CheckTemplatePath ==
  /\ pc = "checkTemplate"
  /\ \E kind \in StatKinds, n \in 0..MaxTemplates :
       /\ kind # "dir" => n = 0
       /\ matched' = n
       /\ templatePathInfo' = getPathInfo(argTemplatePath, kind)
       /\ IF ~templatePathInfo'.exists
            THEN ErrorExit("Template path does not exist", -1)
          ELSE IF ~templatePathInfo'.isFile /\ ~templatePathInfo'.isDir
            THEN ErrorExit("Template path is not a file or directory", -1)
          ELSE pc' = "checkData" /\ UNCHANGED exitVars
  /\ UNCHANGED <<inputVars, outputPathInfo, dataPathInfo, pathVars, sinkVars,
                 loadVars, statusLines>>

\* Ensure that data path exists
CheckDataPath ==
  /\ pc = "checkData"
  /\ \E kind \in StatKinds :
       /\ dataPathInfo' = getPathInfo(argDataPath, kind)
       /\ IF ~dataPathInfo'.exists
            THEN ErrorExit("Data path does not exist", -1)
          ELSE IF ~dataPathInfo'.isFile /\ ~dataPathInfo'.isDir
            THEN ErrorExit("Data path is not a file or directory", -1)
          ELSE pc' = "dispatch" /\ UNCHANGED exitVars
  /\ UNCHANGED <<inputVars, outputPathInfo, templatePathInfo, matched, pathVars,
                 sinkVars, loadVars, statusLines>>

\* try { if (templatePathInfo.isFile) processTemplateFile(...) else exit(-1) }
Dispatch ==
  /\ pc = "dispatch"
  /\ IF templatePathInfo.isFile
       THEN /\ templateFilePath' = templatePathInfo.path
            /\ pc' = "processTemplateFile"
            /\ UNCHANGED exitVars
     ELSE IF templatePathInfo.isDir
       THEN /\ ErrorExit("Template path is a directory", -1)
            /\ UNCHANGED templateFilePath
     ELSE /\ ErrorExit("Template path is not a file or directory", -1)
          /\ UNCHANGED templateFilePath
  /\ UNCHANGED <<inputVars, infoVars, dataFilePath, outputFilePath, sinkVars,
                 loadVars, statusLines>>

\* the catch block without its process.exit: the message is written and the
\* script runs to its end
CatchNoExit(e) ==
  /\ thrown' = e
  /\ stderr' = Append(stderr, e)
  /\ pc' = "mainDone"
  /\ UNCHANGED exitStatus

\* catch (e) { console.error(e.message); process.exit(-1); }
Catch(e) ==
  /\ thrown' = e
  /\ ErrorExit(e, -1)

\* processTemplateFile, line 156
BuildDataFilename ==
  /\ pc = "processTemplateFile"
  /\ dataFilePath' = buildDataFilename(templateFilePath, dataPathInfo)
  /\ pc' = "buildOutputStream"
  /\ UNCHANGED <<inputVars, infoVars, templateFilePath, outputFilePath, sinkVars,
                 loadVars, statusLines, exitVars>>

\* processTemplateFile getting its stream only after the loads: no stream
\* exists yet when renderTemplate starts
BuildOutputStreamDeferred ==
  /\ pc = "buildOutputStream"
  /\ pc' = "renderTemplate"
  /\ UNCHANGED <<inputVars, infoVars, pathVars, sinkVars, loadVars, statusLines, exitVars>>

\* processTemplateFile, line 158: stdout, or fs.createWriteStream(outputFilePath),
\* which throws for a path that is no string and otherwise returns the stream
\* at once and opens the file asynchronously
BuildOutputStream ==
  /\ pc = "buildOutputStream"
  /\ IF ~Truthy(outputPath.outfile) /\ ~Truthy(outputPath.outdir)
       THEN /\ outputStream' = "stdout"
            /\ pc' = "renderTemplate"
            /\ UNCHANGED <<outputFilePath, openState, thrown, exitVars>>
     ELSE IF Truthy(outputPath.outfile) /\ outputPath.outfile.kind # "string"
       THEN /\ Catch("fs.createWriteStream")
            /\ UNCHANGED <<outputFilePath, outputStream, openState>>
     ELSE /\ outputFilePath' = buildOutputFilePath(templateFilePath, outputPath)
          /\ outputStream' = "file"
          /\ openState' = "pending"
          /\ pc' = "renderTemplate"
          /\ UNCHANGED <<thrown, exitVars>>
  /\ UNCHANGED <<inputVars, infoVars, templateFilePath, dataFilePath, fileCreated,
                 streamBuffer, stdoutGot, fileGot, template, data, dataFiles,
                 renderAttempts, statusLines>>

\* renderTemplate, line 137: marko.load(templateFile) returns the template or throws
MarkoLoad ==
  /\ pc = "renderTemplate"
  /\ renderAttempts' = renderAttempts + 1
  /\ \E ok \in BOOLEAN :
       IF ok
         THEN template' = "loaded" /\ pc' = "requireData" /\ UNCHANGED <<thrown, exitVars>>
         ELSE Catch("marko.load") /\ UNCHANGED template
  /\ UNCHANGED <<inputVars, infoVars, pathVars, sinkVars, data, dataFiles, statusLines>>

\* the files of the data location that are on disk when `exts` are the data
\* files the data directory holds for the template
DataFilesOnDisk(exts) ==
  IF dataPathInfo.isFile
    THEN {PathResolve(dataPathInfo.path)}
    ELSE {PathResolve(PathJoin(dataPathInfo.path, PathParseName(templateFilePath) \o e)) :
            e \in exts}

\* renderTemplate, lines 140-142: require(path.resolve(dataFile)) returns the
\* data or throws (no such module, or a file that does not parse)
RequireData ==
  /\ pc = "requireData"
  /\ \E exts \in SUBSET {ExtJson, ExtJs}, parses \in BOOLEAN :
       /\ dataPathInfo.isFile => exts = {}
       /\ dataFiles' = DataFilesOnDisk(exts)
       /\ IF RequireResolve(PathResolve(dataFilePath), dataFiles') # <<>> /\ parses
            THEN data' = "loaded" /\ pc' = "render" /\ UNCHANGED <<thrown, exitVars>>
            ELSE Catch("require") /\ UNCHANGED data
  /\ UNCHANGED <<inputVars, infoVars, pathVars, sinkVars, template, renderAttempts,
                 statusLines>>

\* template.render called without the stream: nothing reaches the sink
RenderDropsOutput ==
  /\ pc = "render"
  /\ \E ok \in BOOLEAN :
       IF ok
         THEN pc' = "mainDone" /\ UNCHANGED <<thrown, exitVars>>
         ELSE Catch("template.render")
  /\ UNCHANGED <<inputVars, infoVars, pathVars, sinkVars, template, data, dataFiles,
                 renderAttempts, statusLines>>

\* renderTemplate, line 144: template.render(data, outputStream) writes the
\* rendering to the stream or throws; a file stream buffers what is written
\* until its file is open
Render ==
  /\ pc = "render"
  /\ \E ok \in BOOLEAN :
       IF ok
         THEN /\ IF outputStream = "stdout"
                   THEN stdoutGot' = TRUE /\ UNCHANGED streamBuffer
                   ELSE streamBuffer' = TRUE /\ UNCHANGED stdoutGot
              /\ pc' = "mainDone"
              /\ UNCHANGED <<thrown, exitVars>>
         ELSE Catch("template.render") /\ UNCHANGED <<streamBuffer, stdoutGot>>
  /\ UNCHANGED <<inputVars, infoVars, pathVars, outputStream, openState, fileCreated,
                 fileGot, template, data, dataFiles, renderAttempts, statusLines>>

\* the open requested by fs.createWriteStream is carried out while the process
\* lives: it creates/truncates the file, or fails
OpenComplete ==
  /\ pc # "exited"
  /\ openState = "pending"
  /\ \E ok \in BOOLEAN :
       IF ok
         THEN openState' = "open" /\ fileCreated' = TRUE
         ELSE openState' = "failed" /\ UNCHANGED fileCreated
  /\ UNCHANGED <<pc, inputVars, infoVars, pathVars, outputStream, streamBuffer,
                 stdoutGot, fileGot, loadVars, statusLines, exitVars>>

\* the script has run to its end: the event loop flushes the stream into the
\* open file and the process ends with status 0; a failed open is an 'error'
\* event of the stream, which ends the process with status 1 when unhandled
ProcessEnd ==
  /\ pc = "mainDone"
  /\ openState # "pending"
  /\ IF openState = "failed"
       THEN /\ \E handled \in BOOLEAN :
                 IF handled
                   THEN exitStatus' = 0 /\ UNCHANGED stderr
                   ELSE exitStatus' = 1 /\ stderr' = Append(stderr, "Unhandled 'error' event")
            /\ UNCHANGED fileGot
       ELSE /\ fileGot' = (openState = "open" /\ streamBuffer)
            /\ exitStatus' = 0
            /\ UNCHANGED stderr
  /\ pc' = "exited"
  /\ UNCHANGED <<inputVars, infoVars, pathVars, outputStream, openState, fileCreated,
                 streamBuffer, stdoutGot, loadVars, statusLines>>

Next ==
  \/ CheckOutputOptions
  \/ CheckOutdir
  \/ CheckTemplatePath
  \/ CheckDataPath
  \/ Dispatch
  \/ BuildDataFilename
  \/ BuildOutputStream
  \/ MarkoLoad
  \/ RequireData
  \/ Render
  \/ OpenComplete
  \/ ProcessEnd

Spec == Init /\ [][Next]_vars

\* ------------------------------------------- the path functions on their own
\* the template directories tried: every chain "d1/.../dk/", with and without
\* its trailing slash
TemplateDirs ==
  LET chains == DirChains(MaxDepth) \ {<<>>}
  IN chains \cup {StripTrailingSlashes(c) : c \in chains}

\* a template directory, a data location and an output location
InitResolve ==
  /\ pc = "resolve"
  /\ argTemplatePath \in TemplateDirs
  /\ argDataPath \in DataPaths
  /\ outputPath \in [outfile : {OptUndefined}, outdir : OutdirValues \ {OptTrue}]
  /\ outputPathInfo = Null
  /\ templatePathInfo = getPathInfo(argTemplatePath, "dir")
  /\ dataPathInfo \in {getPathInfo(argDataPath, kind) : kind \in {"file", "dir"}}
  /\ matched = 0
  /\ templateFilePath = <<>>
  /\ dataFilePath = <<>>
  /\ outputFilePath = <<>>
  /\ outputStream = "none"
  /\ openState = "none"
  /\ fileCreated = FALSE
  /\ streamBuffer = FALSE
  /\ stdoutGot = FALSE
  /\ fileGot = FALSE
  /\ template = "none"
  /\ data = "none"
  /\ dataFiles = {}
  /\ thrown = "none"
  /\ renderAttempts = 0
  /\ statusLines = 0
  /\ stderr = <<>>
  /\ exitStatus = 0

\* the two path computations of processTemplateFile (lines 156 and 158) for a
\* template file found under the template directory
ResolvePaths ==
  /\ pc = "resolve"
  /\ \E rel \in TemplatePaths :
       /\ templateFilePath' = PathJoin(argTemplatePath, rel)
       /\ dataFilePath' = buildDataFilename(templateFilePath', dataPathInfo)
       /\ outputFilePath' = buildOutputFilePath(templateFilePath', outputPath)
  /\ pc' = "resolved"
  /\ UNCHANGED <<inputVars, infoVars, sinkVars, loadVars, statusLines, exitVars>>

NextResolve == ResolvePaths

SpecResolve == InitResolve /\ [][NextResolve]_vars

\* ---------------------------------------------------------------- claims
\* path.dirname(p) for a path with no trailing slash: what precedes the last '/'
PathDirname(p) ==
  LET i == LastIndexOf(p, Slash)
  IN IF i = 0 THEN <<Dot>> ELSE IF i = 1 THEN <<Slash>> ELSE SubSeq(p, 1, i - 1)

\* the directory of template t relative to its ancestor directory base
\* ("" when t lies directly in base)
RelativeDir(t, base) ==
  LET d == NormalizeArray(SplitPath(PathDirname(t), <<>>), <<>>, TRUE)
      b == NormalizeArray(SplitPath(base, <<>>), <<>>, TRUE)
  IN JoinSegments(SubSeq(d, Len(b) + 1, Len(d)))

BothOutputOptions == Truthy(outputPath.outfile) /\ Truthy(outputPath.outdir)
FileSinkConfigured == Truthy(outputPath.outfile) \/ Truthy(outputPath.outdir)

OutdirCheckFailed ==
  outputPathInfo # Null /\ (~outputPathInfo.exists \/ ~outputPathInfo.isDir)
TemplateCheckFailed ==
  templatePathInfo # Null /\ ~templatePathInfo.exists
DataCheckFailed ==
  dataPathInfo # Null
    /\ (~dataPathInfo.exists \/ (~dataPathInfo.isFile /\ ~dataPathInfo.isDir))

NothingOpenedOrRendered ==
  /\ outputStream = "none"
  /\ openState = "none"
  /\ outputFilePath = <<>>
  /\ ~fileCreated /\ ~fileGot /\ ~stdoutGot /\ ~streamBuffer
  /\ renderAttempts = 0

\* C1: when a pre-render check fails (both --outfile and --outdir; --outdir
\* missing or no directory; template path missing; data path missing or
\* neither file nor directory) the process has exited with a non-zero status
\* as soon as the check has run, no output file or stream was opened and
\* no render was attempted.
C1_PreRenderCheckFailureExits ==
  (BothOutputOptions \/ OutdirCheckFailed \/ TemplateCheckFailed \/ DataCheckFailed)
    => /\ NothingOpenedOrRendered
       /\ pc \in {"start", "exited"}
       /\ pc = "start" => BothOutputOptions
       /\ pc = "exited" => exitStatus # 0 /\ stderr # <<>>

\* a run with --outdir valid and a template file, ended by the data path check
C1_Witness ==
  /\ pc = "exited"
  /\ DataCheckFailed
  /\ Truthy(outputPath.outdir)
  /\ templatePathInfo.isFile

\* a run of the batch shape: template argument a directory, data argument
\* valid, --outdir valid
BatchRun ==
  /\ templatePathInfo # Null /\ templatePathInfo.isDir
  /\ dataPathInfo # Null /\ dataPathInfo.exists
  /\ dataPathInfo.isFile \/ dataPathInfo.isDir
  /\ outputPathInfo # Null /\ outputPathInfo.isDir

\* C2: a batch run over a directory of N matched templates has made exactly N
\* render attempts and written exactly N status lines when it ends.
C2_BatchRendersEveryTemplate ==
  (pc = "exited" /\ BatchRun)
    => renderAttempts = matched /\ statusLines = matched

\* C3: a batch run always ends with exit status zero.
C3_BatchExitsZero ==
  (pc = "exited" /\ BatchRun) => exitStatus = 0

\* C4: the output path computed for a template under the template directory
\* is outputDir/relativeDir/templateBaseName.html, relativeDir being the
\* template's directory relative to the template directory.
C4_OutputPathMirrorsDirectory ==
  (pc = "resolved" /\ Truthy(outputPath.outdir))
    => outputFilePath =
         PathJoin(PathJoin(outputPath.outdir.path,
                           RelativeDir(templateFilePath, argTemplatePath)),
                  PathParseName(templateFilePath) \o ExtHtml)

\* C5: with a directory as data location the resolved data path is
\* dataLocation/relativeDir/templateBaseName with no extension fixed
\* (relativeDir is empty for the single template file of a run).
C5_DataDirPathHasNoFixedExtension ==
  (dataFilePath # <<>> /\ dataPathInfo.isDir)
    => dataFilePath = PathJoin(dataPathInfo.path, PathParseName(templateFilePath))

\* C6: with a single file as data location the resolved data path is exactly
\* that file's path, whatever the template path is.
C6_DataFileUsedAsIs ==
  (pc \in {"buildOutputStream", "renderTemplate", "requireData", "render", "mainDone"}
     /\ dataPathInfo.isFile)
    => dataFilePath = argDataPath

\* a data file resolved for a template that lies in a subdirectory
C6_Witness ==
  /\ pc = "render"
  /\ dataPathInfo.isFile
  /\ dataFilePath = argDataPath
  /\ PathDirname(templateFilePath) # <<Dot>>

\* C7: with neither --outfile nor --outdir the sink is standard output and no
\* file is ever opened or created; with --outfile the sink is the file at
\* exactly that path.
C7_OutputTargetSelection ==
  /\ ~FileSinkConfigured
       => /\ outputStream \in {"none", "stdout"}
          /\ openState = "none" /\ ~fileCreated /\ outputFilePath = <<>>
          /\ pc \in {"renderTemplate", "requireData", "render", "mainDone"}
               => outputStream = "stdout"
  /\ (outputPath.outfile.kind = "string" /\ outputPath.outfile.path # <<>>
        /\ pc \in {"renderTemplate", "requireData", "render", "mainDone"})
       => /\ outputStream = "file"
          /\ outputFilePath = outputPath.outfile.path

\* a run that rendered into the --outfile of a template in a subdirectory
C7_Witness ==
  /\ pc = "exited"
  /\ fileGot
  /\ outputPath.outfile.kind = "string"
  /\ outputFilePath = outputPath.outfile.path
  /\ PathDirname(templateFilePath) # <<Dot>>

\* C8: a failure of template loading, data loading or rendering ends the
\* process at once with the failure's message on stderr and a non-zero
\* exit status.
C8_SingleFileFailureIsFatal ==
  thrown \in {"marko.load", "require", "template.render"}
    => /\ pc = "exited"
       /\ exitStatus # 0
       /\ stderr = <<thrown>>

\* a render failure after both loads succeeded
C8_Witness ==
  /\ thrown = "template.render"
  /\ pc = "exited"
  /\ template = "loaded" /\ data = "loaded"

\* C9: a run whose checks pass and whose template load, data load and render
\* succeed (and whose output file, if any, could be opened) ends with exit
\* status 0 after the sink has received the rendering.
C9_SuccessfulRunExitsZero ==
  (pc = "exited" /\ template = "loaded" /\ data = "loaded" /\ thrown = "none"
     /\ openState # "failed")
    => /\ exitStatus = 0
       /\ stderr = <<>>
       /\ outputStream = "stdout" => stdoutGot
       /\ outputStream = "file" => fileCreated /\ fileGot
       /\ outputStream # "none"

\* a successful run into --outdir with the data taken from a data directory
C9_Witness ==
  /\ pc = "exited"
  /\ exitStatus = 0
  /\ fileGot
  /\ Truthy(outputPath.outdir)
  /\ dataPathInfo.isDir

LoadFailed == thrown \in {"marko.load", "require"}

\* C10 as claimed: whenever template or data loading fails with a file sink
\* configured, the output file has been created/truncated when the process
\* exits.
C10_FileCreatedWhenLoadFails ==
  (pc = "exited" /\ LoadFailed /\ FileSinkConfigured) => fileCreated

\* C10 amended: the file stream is created (and its open requested) before
\* the template and the data are loaded, so it exists whenever a load has
\* been attempted or has failed with a file sink configured; the file itself
\* is created/truncated only once that open has been carried out and succeeded.
C10_StreamCreatedBeforeLoads ==
  /\ (renderAttempts > 0 /\ FileSinkConfigured)
       => /\ outputStream = "file"
          /\ openState # "none"
          /\ outputFilePath # <<>>
  /\ (LoadFailed /\ FileSinkConfigured) => pc = "exited" /\ exitStatus # 0
  /\ fileCreated <=> openState = "open"

\* a data load failure with --outdir configured, before the file was created
C10_Witness ==
  /\ pc = "exited"
  /\ thrown = "require"
  /\ Truthy(outputPath.outdir)
  /\ outputStream = "file"
  /\ ~fileCreated

====
